---- MODULE Spec2Model ----
(***************************************************************************)
(* Model of gpt2_finetune/data_utils.py and gpt2_finetune/inference_utils.py *)
(* (style-transfer-paraphrase): the Instance / HPInstance preprocessing    *)
(* pipeline, update_config, and GPT2Generator.                             *)
(*                                                                         *)
(* Representation of Python values:                                        *)
(*   - numpy arrays and lists are sequences of integers;                   *)
(*   - args.context_input_type is the sequence of the segments of the mode *)
(*     string, each segment being one of the markers the code looks for    *)
(*     ("_shuffle_", "_reverse_", "_no_srl_input", "_roberta_input",       *)
(*     "_paraphrase") or marker-free text ("srl"); `in` is membership of a *)
(*     segment and endswith is a test of the last segment;                 *)
(*   - other strings (global_dense_feature_list, upper_length) are         *)
(*     sequences of one-character strings;                                 *)
(*   - a whitespace-separated string of integers (roberta_sentence) is the *)
(*     sequence of its words, each word a sequence of digit characters;    *)
(*   - a raised exception is recorded in the variable raised, after which  *)
(*     no operation is enabled.                                            *)
(***************************************************************************)
EXTENDS Integers, Sequences, FiniteSets, TLC

VARIABLES args, config, instance_dict, instance, generator, call, gdv, output, curr_out, pc, raised

vars == <<args, config, instance_dict, instance, generator, call, gdv, output, curr_out, pc, raised>>

----------------------------------------------------------------------------
(* Bounds of the model *)

MaxLen == 2

MaxPrefix == 2

RobertaMargin == 1

MaxFeatureChars == 3

MaxDense == 2

StrideMargin == 2

MaxOut == 4

(* Program constants *)

MAX_ROBERTA_LENGTH == 502

ROBERTA_PAD == 1

IGNORE_INDEX == -1

(* Ids published by the tokenizer (an external collaborator) *)

pad_token_id == 50257

bos_token_id == 50256

eos_token_id == 50256

additional_special_tokens_ids == <<50258, 50259, 50260>>

Vocab == {11, 12}

----------------------------------------------------------------------------
(* Python helpers *)

Min(a, b) == IF a < b THEN a ELSE b

Repeat(v, n) == [i \in 1..n |-> v]

\* data[:n] for n >= 0
Take(s, n) == SubSeq(s, 1, Min(n, Len(s)))

\* data[n:] for n >= 0
Drop(s, n) == SubSeq(s, n + 1, Len(s))

\* marker in context_input_type
Contains(mode, marker) == \E i \in 1..Len(mode) : mode[i] = marker

\* context_input_type.endswith(marker)
EndsWith(mode, marker) == Len(mode) > 0 /\ mode[Len(mode)] = marker

DigitVal(c) ==
    CASE c = "0" -> 0 [] c = "1" -> 1 [] c = "2" -> 2 [] c = "3" -> 3 [] c = "4" -> 4
      [] c = "5" -> 5 [] c = "6" -> 6 [] c = "7" -> 7 [] c = "8" -> 8 [] c = "9" -> 9

RECURSIVE ParseInt(_)
\* int(x) of a string of decimal digits
ParseInt(w) == IF Len(w) = 0 THEN 0 ELSE 10 * ParseInt(SubSeq(w, 1, Len(w) - 1)) + DigitVal(w[Len(w)])

ParseInts(words) == [i \in 1..Len(words) |-> ParseInt(words[i])]

RECURSIVE Split(_, _)
\* s.split(sep) for a one-character separator
Split(s, sep) ==
    IF \A i \in 1..Len(s) : s[i] # sep
    THEN <<s>>
    ELSE LET i == CHOOSE k \in 1..Len(s) : s[k] = sep /\ \A j \in 1..(k - 1) : s[j] # sep
         IN  <<SubSeq(s, 1, i - 1)>> \o Split(SubSeq(s, i + 1, Len(s)), sep)

\* tokenizer.convert_tokens_to_ids on tag tokens
convert_tokens_to_ids(tokens) ==
    [i \in 1..Len(tokens) |-> CASE tokens[i] = "<a>" -> 50261 [] tokens[i] = "<b>" -> 50262]

----------------------------------------------------------------------------
(* Padding utilities *)

tokens_to_pad(data, total_length) == total_length - Len(data)

\* np.pad raises ValueError on a negative pad count
pad_raises(data, total_length) == tokens_to_pad(data, total_length) < 0

left_padding(data, pad_token, total_length) ==
    Repeat(pad_token, tokens_to_pad(data, total_length)) \o data

right_padding(data, pad_token, total_length) ==
    data \o Repeat(pad_token, tokens_to_pad(data, total_length))

----------------------------------------------------------------------------
(* Instance *)

NoInstance ==
    [truncated |-> FALSE, sent1_tokens |-> <<>>, tags_none |-> TRUE, sent1_tokens_tags |-> <<>>,
     sent2_tokens |-> <<>>, init_context_size |-> 0, roberta_sentence |-> <<>>,
     sent_prefix |-> <<>>, sent_suffix |-> <<>>, sentence |-> <<>>,
     label_suffix |-> <<>>, label |-> <<>>, segment |-> <<>>]

\* Instance.__init__
Instance_init(cfg, d) ==
    [NoInstance EXCEPT !.sent1_tokens = d.sent1_tokens,
                       !.sent2_tokens = d.sent2_tokens,
                       !.init_context_size = cfg.max_prefix_length + 1]

\* Mutant of truncate: keeps the last ids instead of the first
truncate_keeps_tail(self, cfg) ==
    LET max_prefix_length == cfg.max_prefix_length
        max_suffix_length == cfg.max_suffix_length
        cut1 == Len(self.sent1_tokens) > max_prefix_length
        cut2 == Len(self.sent2_tokens) > max_suffix_length
    IN  [self EXCEPT !.truncated = IF cut1 \/ cut2 THEN TRUE ELSE @,
                     !.sent1_tokens = IF cut1 THEN Drop(@, Len(@) - max_prefix_length) ELSE @,
                     !.sent2_tokens = IF cut2 THEN Drop(@, Len(@) - max_suffix_length) ELSE @]

truncate(self, cfg) ==
    LET max_prefix_length == cfg.max_prefix_length
        max_suffix_length == cfg.max_suffix_length
        cut1 == Len(self.sent1_tokens) > max_prefix_length
        cut2 == Len(self.sent2_tokens) > max_suffix_length
    IN  [self EXCEPT !.truncated = IF cut1 \/ cut2 THEN TRUE ELSE @,
                     !.sent1_tokens = IF cut1 THEN Take(@, max_prefix_length) ELSE @,
                     !.sent2_tokens = IF cut2 THEN Take(@, max_suffix_length) ELSE @]

swap(self) ==
    [self EXCEPT !.sent1_tokens = self.sent2_tokens, !.sent2_tokens = self.sent1_tokens]

\* Mutant of shuffle_prefix_suffix: the reverse branch is also drawn at random
shuffle_prefix_suffix_random_reverse(self, a, coin) ==
    IF Contains(a.context_input_type, "_shuffle_") \/ Contains(a.context_input_type, "_reverse_")
    THEN IF coin THEN swap(self) ELSE self
    ELSE self

\* coin is the outcome of random.random() <= 0.5
shuffle_prefix_suffix(self, a, coin) ==
    IF Contains(a.context_input_type, "_shuffle_")
    THEN IF coin THEN swap(self) ELSE self
    ELSE IF Contains(a.context_input_type, "_reverse_")
         THEN swap(self)
         ELSE self

build_sentence_raises(self, a, cfg) ==
    \/ /\ ~EndsWith(a.context_input_type, "_no_srl_input")
       /\ pad_raises(self.sent1_tokens, cfg.max_prefix_length)
    \/ pad_raises(Append(self.sent2_tokens, eos_token_id), cfg.max_suffix_length + 1)

build_sentence(self, a, cfg) ==
    LET sent_prefix ==
            IF EndsWith(a.context_input_type, "_no_srl_input")
            THEN <<>>
            ELSE left_padding(self.sent1_tokens, pad_token_id, cfg.max_prefix_length)
        sent_suffix ==
            right_padding(Append(self.sent2_tokens, eos_token_id), pad_token_id,
                          cfg.max_suffix_length + 1)
    IN  [self EXCEPT !.sent_prefix = sent_prefix,
                     !.sent_suffix = sent_suffix,
                     !.sentence = sent_prefix \o <<bos_token_id>> \o sent_suffix]

build_label_raises(self, cfg) ==
    pad_raises(Append(self.sent2_tokens, eos_token_id), cfg.max_suffix_length + 1)

\* Mutant of build_label: the label suffix is padded with the pad token id
build_label_pad_token(self, cfg) ==
    LET dense_length == cfg.global_dense_length + cfg.roberta_dense_length
        label_suffix ==
            right_padding(Append(self.sent2_tokens, eos_token_id), pad_token_id,
                          cfg.max_suffix_length + 1)
    IN  [self EXCEPT !.label_suffix = label_suffix,
                     !.label = Repeat(IGNORE_INDEX, dense_length)
                               \o [i \in 1..Len(self.sent_prefix) |-> IGNORE_INDEX]
                               \o <<IGNORE_INDEX>>
                               \o label_suffix]

build_label(self, cfg) ==
    LET dense_length == cfg.global_dense_length + cfg.roberta_dense_length
        label_suffix ==
            right_padding(Append(self.sent2_tokens, eos_token_id), IGNORE_INDEX,
                          cfg.max_suffix_length + 1)
    IN  [self EXCEPT !.label_suffix = label_suffix,
                     !.label = Repeat(IGNORE_INDEX, dense_length)
                               \o [i \in 1..Len(self.sent_prefix) |-> IGNORE_INDEX]
                               \o <<IGNORE_INDEX>>
                               \o label_suffix]

build_segment_raises(self, cfg) ==
    /\ ~self.tags_none
    /\ pad_raises(convert_tokens_to_ids(self.sent1_tokens_tags), cfg.max_prefix_length)

\* Mutant of build_segment: the untagged prefix segment has max_prefix_length
\* entries whatever the sentence prefix is
build_segment_fixed_prefix(self, cfg) ==
    LET dense_length == cfg.global_dense_length + cfg.roberta_dense_length
        prefix_segment ==
            IF ~self.tags_none
            THEN left_padding(convert_tokens_to_ids(self.sent1_tokens_tags), pad_token_id,
                              cfg.max_prefix_length)
            ELSE Repeat(additional_special_tokens_ids[2], cfg.max_prefix_length)
        suffix_segment_tag ==
            IF ~self.tags_none
            THEN additional_special_tokens_ids[2]
            ELSE additional_special_tokens_ids[3]
    IN  [self EXCEPT !.segment = Repeat(additional_special_tokens_ids[1], dense_length)
                                 \o prefix_segment
                                 \o <<suffix_segment_tag>>
                                 \o [i \in 1..Len(self.sent_suffix) |-> suffix_segment_tag]]

build_segment(self, cfg) ==
    LET dense_length == cfg.global_dense_length + cfg.roberta_dense_length
        prefix_segment ==
            IF ~self.tags_none
            THEN left_padding(convert_tokens_to_ids(self.sent1_tokens_tags), pad_token_id,
                              cfg.max_prefix_length)
            ELSE [i \in 1..Len(self.sent_prefix) |-> additional_special_tokens_ids[2]]
        suffix_segment_tag ==
            IF ~self.tags_none
            THEN additional_special_tokens_ids[2]
            ELSE additional_special_tokens_ids[3]
    IN  [self EXCEPT !.segment = Repeat(additional_special_tokens_ids[1], dense_length)
                                 \o prefix_segment
                                 \o <<suffix_segment_tag>>
                                 \o [i \in 1..Len(self.sent_suffix) |-> suffix_segment_tag]]

\* TRUE when both assertions of check_constraints pass
check_constraints(self, cfg) ==
    LET dense_length == cfg.global_dense_length + cfg.roberta_dense_length
    IN  /\ Len(self.sentence) = Len(self.label) - dense_length
        /\ Len(self.sentence) = Len(self.segment) - dense_length

----------------------------------------------------------------------------
(* HPInstance *)

\* roberta_sentence as an int32 array: parsed from text, or the tensor's values
roberta_array(rs) == IF rs.kind = "str" THEN ParseInts(rs.body) ELSE rs.body

\* Mutant of preprocess_roberta: pads on the left
preprocess_roberta_left_pad(rs) ==
    LET roberta_sentence == roberta_array(rs)
    IN  IF Len(roberta_sentence) < MAX_ROBERTA_LENGTH
        THEN left_padding(roberta_sentence, ROBERTA_PAD, MAX_ROBERTA_LENGTH)
        ELSE Take(roberta_sentence, MAX_ROBERTA_LENGTH)

preprocess_roberta(rs) ==
    LET roberta_sentence == roberta_array(rs)
    IN  IF Len(roberta_sentence) < MAX_ROBERTA_LENGTH
        THEN right_padding(roberta_sentence, ROBERTA_PAD, MAX_ROBERTA_LENGTH)
        ELSE Take(roberta_sentence, MAX_ROBERTA_LENGTH)

\* decide_sent1_tokens calls roberta_sentence.split(), which a tensor does not have
decide_sent1_tokens_raises(a, d) ==
    /\ ~EndsWith(a.context_input_type, "_no_srl_input")
    /\ EndsWith(a.context_input_type, "_roberta_input")
    /\ d.roberta_sentence.kind # "str"

decide_sent1_tokens(self, a, d) ==
    IF EndsWith(a.context_input_type, "_no_srl_input")
    THEN [self EXCEPT !.sent1_tokens = <<>>, !.tags_none = TRUE, !.sent1_tokens_tags = <<>>]
    ELSE IF EndsWith(a.context_input_type, "_roberta_input")
         THEN [self EXCEPT !.sent1_tokens = ParseInts(d.roberta_sentence.body),
                           !.tags_none = TRUE, !.sent1_tokens_tags = <<>>]
         ELSE [self EXCEPT !.sent1_tokens = ParseInts(d.author_tag_str),
                           !.tags_none = FALSE, !.sent1_tokens_tags = d.author_tag_ids]

\* HPInstance.__init__ when nothing raises
HPInstance_init(a, cfg, d) ==
    LET s0 == [NoInstance EXCEPT !.init_context_size = cfg.max_prefix_length + 1]
        s1 == decide_sent1_tokens(s0, a, d)
    IN  [s1 EXCEPT !.sent2_tokens = d.sentence,
                   !.roberta_sentence = preprocess_roberta(d.roberta_sentence)]

----------------------------------------------------------------------------
(* Config updater *)

SetKey(cfg, k, v) == [x \in DOMAIN cfg \cup {k} |-> IF x = k THEN v ELSE cfg[x]]

\* len(global_dense_feature_list.split(",")), or 0 for the sentinel "none"
GlobalDenseLength(feature_list) ==
    IF feature_list # <<"n", "o", "n", "e">>
    THEN Len(Split(feature_list, ","))
    ELSE 0

\* Mutant of RobertaDenseLength: the indices run over range(MAX_ROBERTA_LENGTH)
RobertaDenseLength_full_range(content_aggregation) ==
    IF content_aggregation > MAX_ROBERTA_LENGTH
    THEN 0
    ELSE Len(SelectSeq([k \in 1..MAX_ROBERTA_LENGTH |-> k - 1],
                       LAMBDA i : i % content_aggregation = 0))

\* [i for i in range(MAX_ROBERTA_LENGTH - 1) if i % content_aggregation == 0]
RobertaDenseLength(content_aggregation) ==
    IF content_aggregation > MAX_ROBERTA_LENGTH
    THEN 0
    ELSE Len(SelectSeq([k \in 1..(MAX_ROBERTA_LENGTH - 1) |-> k - 1],
                       LAMBDA i : i % content_aggregation = 0))

\* Mutant of update_config_assertion: strict comparison
update_config_assertion_strict(global_dense_length, cfg) ==
    global_dense_length < cfg.max_dense_length

\* assert global_dense_length <= config["max_dense_length"]
update_config_assertion(global_dense_length, cfg) ==
    global_dense_length <= cfg.max_dense_length

\* the configuration as update_config leaves it when the assertion fails
update_config_failed(a, cfg) ==
    IF EndsWith(a.context_input_type, "_no_srl_input")
    THEN [cfg EXCEPT !.max_prefix_length = 0]
    ELSE cfg

update_config_raises(a, cfg) ==
    ~update_config_assertion(GlobalDenseLength(a.global_dense_feature_list), cfg)

\* the configuration as update_config leaves it when it returns
update_config(a, cfg) ==
    SetKey(SetKey(update_config_failed(a, cfg),
                  "global_dense_length", GlobalDenseLength(a.global_dense_feature_list)),
           "roberta_dense_length", RobertaDenseLength(a.content_aggregation))

----------------------------------------------------------------------------
(* Inputs of the pipeline specification *)

SeqsUpTo(S, n) == UNION {[1..k -> S] : k \in 0..n}

Modes ==
    { <<"srl">>, <<"_shuffle_", "srl">>, <<"_reverse_", "srl">>,
      <<"_shuffle_", "_reverse_">>, <<"srl", "_no_srl_input">>,
      <<"_reverse_", "_no_srl_input">>, <<"srl", "_roberta_input">> }

NoneStr == <<"n", "o", "n", "e">>

EosStr == <<"e", "o", "s">>

PipelineArgs ==
    { [context_input_type |-> m, global_dense_feature_list |-> NoneStr,
       content_aggregation |-> 1000, upper_length |-> EosStr] : m \in Modes }

DenseLengths == {<<0, 0>>, <<2, 0>>, <<1, 1>>}

ConfigsWith(dense) ==
    { [max_prefix_length |-> p, max_suffix_length |-> s, max_dense_length |-> dl[1],
       global_dense_length |-> dl[1], roberta_dense_length |-> dl[2]] :
      p \in 0..MaxPrefix, s \in 0..MaxPrefix, dl \in dense }

InstanceDicts ==
    { [cls |-> "Instance", sent1_tokens |-> t1, sent2_tokens |-> t2] :
      t1 \in SeqsUpTo(Vocab, MaxLen), t2 \in SeqsUpTo(Vocab, MaxLen) }

RobertaLens ==
    (0..RobertaMargin)
    \cup ((MAX_ROBERTA_LENGTH - RobertaMargin)..(MAX_ROBERTA_LENGTH + RobertaMargin))

RobertaWord(i) == IF i % 3 = 0 THEN <<"1">> ELSE IF i % 3 = 1 THEN <<"1", "0">> ELSE <<"2", "7">>

RobertaInputs ==
    { [kind |-> "str", body |-> [i \in 1..n |-> RobertaWord(i)]] : n \in RobertaLens }
    \cup { [kind |-> "tensor", body |-> [i \in 1..n |-> ParseInt(RobertaWord(i))]] : n \in RobertaLens }

HPInstanceDicts ==
    { [cls |-> "HPInstance",
       sentence |-> [i \in 1..n2 |-> IF i % 2 = 1 THEN 11 ELSE 12],
       roberta_sentence |-> rs,
       author_tag_str |-> [i \in 1..na |-> IF i % 2 = 1 THEN <<"3">> ELSE <<"4", "5">>],
       author_tag_ids |-> [i \in 1..na |-> IF i % 2 = 1 THEN "<a>" ELSE "<b>"]] :
      n2 \in 0..MaxLen, na \in 0..MaxLen, rs \in RobertaInputs }

NoGenerator == [loaded |-> FALSE, global_dense_features |-> <<>>]

NoCall == [context_ids |-> <<>>, gdf |-> [kind |-> "None"]]

GenIdle ==
    /\ generator = NoGenerator
    /\ call = NoCall
    /\ gdv = <<>>
    /\ output = <<>>
    /\ curr_out = <<>>

Init ==
    /\ args \in PipelineArgs
    /\ \/ /\ instance_dict \in InstanceDicts
          /\ config \in ConfigsWith(DenseLengths)
       \/ /\ instance_dict \in HPInstanceDicts
          /\ config \in ConfigsWith({<<1, 1>>})
    /\ instance = NoInstance
    /\ pc = "new"
    /\ raised = "none"
    /\ GenIdle

----------------------------------------------------------------------------
(* The pipeline, one action per step of construction and of preprocess *)

Construct ==
    /\ pc = "new" /\ raised = "none"
    /\ instance_dict.cls = "Instance"
    /\ instance' = Instance_init(config, instance_dict)
    /\ pc' = "truncate"
    /\ UNCHANGED <<args, config, instance_dict, generator, call, gdv, output, curr_out, raised>>

ConstructHP ==
    /\ pc = "new" /\ raised = "none"
    /\ instance_dict.cls = "HPInstance"
    /\ IF decide_sent1_tokens_raises(args, instance_dict)
       THEN raised' = "AttributeError" /\ UNCHANGED <<instance, pc>>
       ELSE IF Len(preprocess_roberta(instance_dict.roberta_sentence)) # MAX_ROBERTA_LENGTH
            THEN raised' = "AssertionError" /\ UNCHANGED <<instance, pc>>
            ELSE /\ instance' = HPInstance_init(args, config, instance_dict)
                 /\ pc' = "truncate"
                 /\ UNCHANGED raised
    /\ UNCHANGED <<args, config, instance_dict, generator, call, gdv, output, curr_out>>

Truncate ==
    /\ pc = "truncate" /\ raised = "none"
    /\ instance' = truncate(instance, config)
    /\ pc' = "shuffle"
    /\ UNCHANGED <<args, config, instance_dict, generator, call, gdv, output, curr_out, raised>>

Shuffle ==
    /\ pc = "shuffle" /\ raised = "none"
    /\ \E coin \in BOOLEAN : instance' = shuffle_prefix_suffix(instance, args, coin)
    /\ pc' = "build_sentence"
    /\ UNCHANGED <<args, config, instance_dict, generator, call, gdv, output, curr_out, raised>>

BuildSentence ==
    /\ pc = "build_sentence" /\ raised = "none"
    /\ IF build_sentence_raises(instance, args, config)
       THEN raised' = "ValueError" /\ UNCHANGED <<instance, pc>>
       ELSE /\ instance' = build_sentence(instance, args, config)
            /\ pc' = "build_label"
            /\ UNCHANGED raised
    /\ UNCHANGED <<args, config, instance_dict, generator, call, gdv, output, curr_out>>

BuildLabel ==
    /\ pc = "build_label" /\ raised = "none"
    /\ IF build_label_raises(instance, config)
       THEN raised' = "ValueError" /\ UNCHANGED <<instance, pc>>
       ELSE /\ instance' = build_label(instance, config)
            /\ pc' = "build_segment"
            /\ UNCHANGED raised
    /\ UNCHANGED <<args, config, instance_dict, generator, call, gdv, output, curr_out>>

BuildSegment ==
    /\ pc = "build_segment" /\ raised = "none"
    /\ IF build_segment_raises(instance, config)
       THEN raised' = "ValueError" /\ UNCHANGED <<instance, pc>>
       ELSE /\ instance' = build_segment(instance, config)
            /\ pc' = "check_constraints"
            /\ UNCHANGED raised
    /\ UNCHANGED <<args, config, instance_dict, generator, call, gdv, output, curr_out>>

CheckConstraints ==
    /\ pc = "check_constraints" /\ raised = "none"
    /\ IF check_constraints(instance, config)
       THEN pc' = "done" /\ UNCHANGED raised
       ELSE raised' = "AssertionError" /\ UNCHANGED pc
    /\ UNCHANGED <<args, config, instance_dict, instance, generator, call, gdv, output, curr_out>>

Next ==
    \/ Construct
    \/ ConstructHP
    \/ Truncate
    \/ Shuffle
    \/ BuildSentence
    \/ BuildLabel
    \/ BuildSegment
    \/ CheckConstraints

Spec == Init /\ [][Next]_vars

----------------------------------------------------------------------------
(* Properties of the pipeline, checked under Spec *)

DenseLength == config.global_dense_length + config.roberta_dense_length

IsReverseOnly ==
    /\ Contains(args.context_input_type, "_reverse_")
    /\ ~Contains(args.context_input_type, "_shuffle_")

\* C1: once build_sentence, build_label and build_segment have run,
\* len(sentence) = len(label) - dense_length = len(segment) - dense_length,
\* and check_constraints never raises its AssertionError.
C1_LengthsAligned ==
    /\ ~(pc = "check_constraints" /\ raised = "AssertionError")
    /\ pc \in {"check_constraints", "done"} =>
         /\ Len(instance.sentence) = Len(instance.label) - DenseLength
         /\ Len(instance.sentence) = Len(instance.segment) - DenseLength

C1_Witness ==
    /\ pc = "done"
    /\ ~instance.tags_none
    /\ instance.truncated
    /\ DenseLength > 0
    /\ Len(instance.segment) > Len(instance.sentence)

\* C2: after preprocess every label position before the suffix region (dense
\* slots, prefix positions, the bos slot) is -1, and the suffix region, of
\* length max_suffix_length + 1, is sent2_tokens, then the eos id, then -1 fill.
C2_LabelMasking ==
    pc = "done" =>
      LET label == instance.label
          region == config.max_suffix_length + 1
          start == Len(label) - region
          k == Len(instance.sent2_tokens)
      IN  /\ start = DenseLength + Len(instance.sent_prefix) + 1
          /\ k + 1 <= region
          /\ \A i \in 1..start : label[i] = -1
          /\ \A j \in 1..region :
               label[start + j] = IF j <= k THEN instance.sent2_tokens[j]
                                  ELSE IF j = k + 1 THEN eos_token_id ELSE -1

C2_Witness ==
    /\ pc = "done"
    /\ Len(instance.sent2_tokens) >= 1
    /\ Len(instance.sent2_tokens) < config.max_suffix_length
    /\ Len(instance.sent_prefix) > 0
    /\ DenseLength > 0
    /\ instance.truncated

\* C3 (as stated): whenever the mode string contains "_reverse_", the shuffle
\* step leaves sent1_tokens and sent2_tokens exactly exchanged.
C3_ReverseAlwaysSwaps ==
    [][(pc = "shuffle" /\ pc' = "build_sentence"
        /\ Contains(args.context_input_type, "_reverse_"))
       => (/\ instance'.sent1_tokens = instance.sent2_tokens
           /\ instance'.sent2_tokens = instance.sent1_tokens)]_vars

\* C3 (amended): whenever the mode string contains "_reverse_" and does not
\* contain "_shuffle_", the shuffle step leaves sent1_tokens and sent2_tokens
\* exactly exchanged, whatever the random draw; in every mode the step either
\* exchanges the two or leaves both unchanged, and nothing else of the
\* instance changes.
C3_ReverseOnlySwaps ==
    [][(pc = "shuffle" /\ pc' = "build_sentence")
       => /\ IsReverseOnly =>
               /\ instance'.sent1_tokens = instance.sent2_tokens
               /\ instance'.sent2_tokens = instance.sent1_tokens
          /\ instance' \in {instance, swap(instance)}]_vars

C3_Witness ==
    /\ pc = "build_sentence"
    /\ IsReverseOnly
    /\ instance_dict.cls = "Instance"
    /\ instance.truncated
    /\ instance.sent1_tokens # instance.sent2_tokens
    /\ instance.sent1_tokens = Take(instance_dict.sent2_tokens, config.max_suffix_length)
    /\ instance.sent2_tokens = Take(instance_dict.sent1_tokens, config.max_prefix_length)

\* C7: the truncate step keeps exactly the first max_prefix_length ids of a
\* longer sent1_tokens and leaves a shorter one unchanged, likewise
\* sent2_tokens against max_suffix_length, and truncated is True afterwards
\* iff at least one of the two was shortened.
C7_Truncate ==
    [][(pc = "truncate" /\ pc' = "shuffle")
       => LET P == config.max_prefix_length
              S == config.max_suffix_length
              a == instance.sent1_tokens
              b == instance.sent2_tokens
              a2 == instance'.sent1_tokens
              b2 == instance'.sent2_tokens
          IN  /\ Len(a) > P => (Len(a2) = P /\ \A i \in 1..P : a2[i] = a[i])
              /\ Len(a) <= P => a2 = a
              /\ Len(b) > S => (Len(b2) = S /\ \A i \in 1..S : b2[i] = b[i])
              /\ Len(b) <= S => b2 = b
              /\ instance'.truncated <=> (Len(a2) < Len(a) \/ Len(b2) < Len(b))]_vars

C7_Witness ==
    /\ pc = "shuffle"
    /\ instance_dict.cls = "Instance"
    /\ instance.truncated
    /\ Len(instance_dict.sent1_tokens) > config.max_prefix_length
    /\ Len(instance.sent1_tokens) = config.max_prefix_length
    /\ config.max_prefix_length > 0
    /\ instance.sent2_tokens = instance_dict.sent2_tokens

\* C8: when HPInstance.__init__ returns, preprocess_roberta has left
\* roberta_sentence of length exactly 502: the input's ids in order, cut to the
\* first 502 or right-padded with 1; and its length assertion never fails.
C8_RobertaNormalized ==
    /\ ~(pc = "new" /\ raised = "AssertionError")
    /\ (instance_dict.cls = "HPInstance" /\ pc = "truncate") =>
         LET body == instance_dict.roberta_sentence.body
             ids == IF instance_dict.roberta_sentence.kind = "str"
                    THEN [i \in 1..Len(body) |-> ParseInt(body[i])]
                    ELSE body
         IN  /\ Len(instance.roberta_sentence) = 502
             /\ \A i \in 1..502 :
                  instance.roberta_sentence[i] = IF i <= Len(ids) THEN ids[i] ELSE 1

C8_Witness ==
    /\ instance_dict.cls = "HPInstance"
    /\ pc = "truncate"
    /\ Len(instance_dict.roberta_sentence.body) = 501
    /\ instance_dict.roberta_sentence.kind = "str"
    /\ instance.roberta_sentence[501] = 1
    /\ instance.roberta_sentence[502] = 1
    /\ instance.roberta_sentence[500] = 27

\* C10 (as stated): at every left_padding / right_padding call of
\* build_sentence, build_label and build_segment, total_length >= len(data),
\* so no negative pad count is produced.
C10_PaddingPrecondition ==
    /\ raised # "ValueError"
    /\ pc = "build_sentence" =>
         /\ ~EndsWith(args.context_input_type, "_no_srl_input") =>
              config.max_prefix_length >= Len(instance.sent1_tokens)
         /\ config.max_suffix_length + 1 >= Len(instance.sent2_tokens) + 1
    /\ pc = "build_label" =>
         config.max_suffix_length + 1 >= Len(instance.sent2_tokens) + 1
    /\ (pc = "build_segment" /\ ~instance.tags_none) =>
         config.max_prefix_length >= Len(instance.sent1_tokens_tags)

----------------------------------------------------------------------------
(* The config updater's specification *)

FeatureLists == {<<"n", "o", "n", "e">>} \cup SeqsUpTo({"a", ","}, MaxFeatureChars)

Strides ==
    (1..(1 + StrideMargin))
    \cup ((MAX_ROBERTA_LENGTH - StrideMargin)..(MAX_ROBERTA_LENGTH + StrideMargin))

ConfigArgs ==
    { [context_input_type |-> m, global_dense_feature_list |-> fl,
       content_aggregation |-> ca, upper_length |-> EosStr] :
      m \in {<<"srl">>, <<"srl", "_no_srl_input">>}, fl \in FeatureLists, ca \in Strides }

\* DATASET_CONFIG entries: fresh, or as an earlier update_config left them
BaseConfigs ==
    { [max_prefix_length |-> MaxPrefix, max_suffix_length |-> MaxPrefix, max_dense_length |-> md] :
      md \in 0..MaxDense }
    \cup
    { [max_prefix_length |-> MaxPrefix, max_suffix_length |-> MaxPrefix, max_dense_length |-> md,
       global_dense_length |-> 0, roberta_dense_length |-> 0] :
      md \in 0..MaxDense }

InitConfig ==
    /\ args \in ConfigArgs
    /\ config \in BaseConfigs
    /\ instance_dict = [cls |-> "none"]
    /\ instance = NoInstance
    /\ pc = "update_config"
    /\ raised = "none"
    /\ GenIdle

UpdateConfig ==
    /\ pc = "update_config" /\ raised = "none"
    /\ IF update_config_raises(args, config)
       THEN /\ raised' = "AssertionError"
            /\ config' = update_config_failed(args, config)
            /\ UNCHANGED pc
       ELSE /\ config' = update_config(args, config)
            /\ pc' = "configured"
            /\ UNCHANGED raised
    /\ UNCHANGED <<args, instance_dict, instance, generator, call, gdv, output, curr_out>>

NextConfig ==
    \/ UpdateConfig

SpecConfig == InitConfig /\ [][NextConfig]_vars

DerivedKeys == {"global_dense_length", "roberta_dense_length"}

\* C4 (as stated): roberta_dense_length is 0 whenever the stride exceeds 501,
\* and otherwise the number of i in [0, 500] with i mod stride = 0.
C4_RobertaDenseLength501 ==
    pc = "configured" =>
      config.roberta_dense_length =
        IF args.content_aggregation > 501
        THEN 0
        ELSE Cardinality({i \in 0..500 : i % args.content_aggregation = 0})

\* C4 (amended): roberta_dense_length is 0 whenever the stride exceeds 502,
\* and otherwise the number of i in [0, 500] with i mod stride = 0 (so 1 for
\* the strides 501 and 502).
C4_RobertaDenseLength502 ==
    pc = "configured" =>
      config.roberta_dense_length =
        IF args.content_aggregation > 502
        THEN 0
        ELSE Cardinality({i \in 0..500 : i % args.content_aggregation = 0})

C4_Witness ==
    /\ pc = "configured"
    /\ args.content_aggregation = 502
    /\ config.roberta_dense_length = 1

\* C9: update_config raises its AssertionError exactly when the number of
\* comma-separated feature names (0 for "none") exceeds max_dense_length; when
\* it raises, neither derived length is written, and when it returns both are
\* written with the derived values.
C9_UpdateConfigAssertion ==
    [][pc = "update_config"
       => LET fl == args.global_dense_feature_list
              commas == Cardinality({i \in 1..Len(fl) : fl[i] = ","})
              g == IF fl = NoneStr THEN 0 ELSE commas + 1
              r == IF args.content_aggregation > 502
                   THEN 0
                   ELSE Cardinality({i \in 0..500 : i % args.content_aggregation = 0})
          IN  /\ raised' = "AssertionError" <=> g > config.max_dense_length
              /\ raised' = "AssertionError" =>
                   /\ DerivedKeys \cap DOMAIN config' = DerivedKeys \cap DOMAIN config
                   /\ \A k \in DerivedKeys \cap DOMAIN config : config'[k] = config[k]
              /\ raised' = "none" =>
                   /\ DerivedKeys \subseteq DOMAIN config'
                   /\ config'.global_dense_length = g
                   /\ config'.roberta_dense_length = r]_vars

C9_Witness ==
    /\ pc = "update_config"
    /\ raised = "AssertionError"
    /\ args.global_dense_feature_list = <<"a", ",", "a">>
    /\ config.max_dense_length = 1
    /\ DerivedKeys \cap DOMAIN config = {}

----------------------------------------------------------------------------
(* GPT2Generator *)

\* Instance.preprocess as one call: coin is the draw of the shuffle step
preprocess(self, a, cfg, coin) ==
    LET s2 == shuffle_prefix_suffix(truncate(self, cfg), a, coin)
    IN  IF build_sentence_raises(s2, a, cfg)
        THEN [raised |-> "ValueError", self |-> s2]
        ELSE LET s3 == build_sentence(s2, a, cfg)
             IN  IF build_label_raises(s3, cfg)
                 THEN [raised |-> "ValueError", self |-> s3]
                 ELSE LET s4 == build_label(s3, cfg)
                      IN  IF build_segment_raises(s4, cfg)
                          THEN [raised |-> "ValueError", self |-> s4]
                          ELSE LET s5 == build_segment(s4, cfg)
                               IN  IF check_constraints(s5, cfg)
                                   THEN [raised |-> "none", self |-> s5]
                                   ELSE [raised |-> "AssertionError", self |-> s5]

\* self.global_dense_features as __init__ leaves it: set only inside the if
load_global_dense_features(a, tables) ==
    IF /\ a.global_dense_feature_list # NoneStr
       /\ ~EndsWith(a.context_input_type, "_paraphrase")
    THEN [loaded |-> TRUE,
          global_dense_features |->
            [i \in 1..Len(Split(a.global_dense_feature_list, ",")) |->
               [gdf |-> Split(a.global_dense_feature_list, ",")[i], final_vectors |-> tables[i]]]]
    ELSE [loaded |-> FALSE, global_dense_features |-> <<>>]

\* np.zeros(shape) with the listed entries set to 1
Zeros(rows, cols) == [shape |-> <<rows, cols>>, ones |-> {}]

SetOne(m, r, c) == [m EXCEPT !.ones = @ \cup {<<r, c>>}]

\* the exception the dense-vector step of generate_batch raises, or "none"
dense_vectors_raises(gen, a, g) ==
    IF g.kind # "None" /\ a.global_dense_feature_list # NoneStr
    THEN IF ~gen.loaded
         THEN "AttributeError"
         ELSE IF Len(gen.global_dense_features) > 0
              THEN IF g.kind # "author"
                   THEN "TypeError"
                   ELSE IF \E i \in 1..Len(gen.global_dense_features) :
                             g.author \notin DOMAIN gen.global_dense_features[i].final_vectors
                        THEN "KeyError"
                        ELSE "none"
              ELSE IF g.kind # "buckets" THEN "TypeError" ELSE "none"
    ELSE "none"

dense_vectors(gen, a, g) ==
    IF g.kind # "None" /\ a.global_dense_feature_list # NoneStr
    THEN IF Len(gen.global_dense_features) > 0
         THEN [vectors |-> [i \in 1..Len(gen.global_dense_features) |->
                              gen.global_dense_features[i].final_vectors[g.author]]]
         ELSE SetOne(SetOne(Zeros(2, 20), 0, g.f1_bucket), 1, g.ed_bucket + 10)
    ELSE Zeros(1, 768)

StartsWith(s, prefix) == Len(s) >= Len(prefix) /\ SubSeq(s, 1, Len(prefix)) = prefix

\* curr_out[:curr_out.index(eos_token_id)] when the eos id is in curr_out
cut_at_eos(curr) ==
    IF \E i \in 1..Len(curr) : curr[i] = eos_token_id
    THEN LET first == CHOOSE i \in 1..Len(curr) :
                        curr[i] = eos_token_id /\ \A j \in 1..(i - 1) : curr[j] # eos_token_id
         IN  SubSeq(curr, 1, first - 1)
    ELSE curr

\* the ids generate_batch hands to tokenizer.decode for one output row
postprocess_row(row, self, a) ==
    LET curr0 == cut_at_eos(Drop(row, self.init_context_size))
    IN  IF StartsWith(a.upper_length, <<"s", "a", "m", "e">>)
        THEN LET parts == Split(a.upper_length, "_")
                 extra == ParseInt(parts[Len(parts)])
             IN  Take(curr0, Len(self.sent1_tokens) + extra)
        ELSE curr0

----------------------------------------------------------------------------
(* The generator's specification: __init__, then generate on one context *)

GenModes == { <<"srl">>, <<"srl", "_no_srl_input">>, <<"srl", "_paraphrase">> }

UpperLengths == { EosStr, <<"s", "a", "m", "e", "_", "0">>, <<"s", "a", "m", "e", "_", "1">> }

\* training_args.bin as loaded
GenArgs ==
    { [context_input_type |-> m, global_dense_feature_list |-> fl,
       content_aggregation |-> 1000, upper_length |-> EosStr] :
      m \in GenModes, fl \in {NoneStr, <<"a", ",", "b">>} }

GenConfigs ==
    { [max_prefix_length |-> p, max_suffix_length |-> s, max_dense_length |-> MaxDense] :
      p \in 0..MaxPrefix, s \in 0..MaxPrefix }

\* the pickled per-author average vectors, one table per feature name
VectorTables == { [i \in 1..2 |-> [author \in authors |-> <<i, author>>]] : authors \in {{0}, {0, 1}} }

Selectors ==
    { [kind |-> "None"], [kind |-> "author", author |-> 0], [kind |-> "author", author |-> 1],
      [kind |-> "buckets", f1_bucket |-> 3, ed_bucket |-> 9] }

OutVocab == {11, eos_token_id}

InitGen ==
    /\ args \in GenArgs
    /\ config \in GenConfigs
    /\ instance_dict = [cls |-> "none"]
    /\ instance = NoInstance
    /\ pc = "init"
    /\ raised = "none"
    /\ GenIdle

GPT2Generator_init ==
    /\ pc = "init" /\ raised = "none"
    /\ \E upper_length \in UpperLengths, tables \in VectorTables :
         LET a == [args EXCEPT !.upper_length = upper_length]
         IN  /\ args' = a
             /\ IF update_config_raises(a, config)
                THEN /\ raised' = "AssertionError"
                     /\ config' = update_config_failed(a, config)
                     /\ UNCHANGED <<generator, pc>>
                ELSE /\ config' = update_config(a, config)
                     /\ generator' = load_global_dense_features(a, tables)
                     /\ pc' = "ready"
                     /\ UNCHANGED raised
    /\ UNCHANGED <<instance_dict, instance, call, gdv, output, curr_out>>

\* generate_batch on the one-element batch of generate, up to the engine call
GenerateBuild ==
    /\ pc = "ready" /\ raised = "none"
    /\ \E context_ids \in SeqsUpTo(Vocab, MaxLen), g \in Selectors, coin \in BOOLEAN :
         LET d == [cls |-> "Instance", sent1_tokens |-> context_ids, sent2_tokens |-> context_ids]
             built == preprocess(Instance_init(config, d), args, config, coin)
             failure == IF built.raised # "none"
                        THEN built.raised
                        ELSE dense_vectors_raises(generator, args, g)
         IN  /\ call' = [context_ids |-> context_ids, gdf |-> g]
             /\ instance_dict' = d
             /\ instance' = built.self
             /\ IF failure # "none"
                THEN raised' = failure /\ UNCHANGED <<gdv, pc>>
                ELSE /\ gdv' = dense_vectors(generator, args, g)
                     /\ pc' = "generate"
                     /\ UNCHANGED raised
    /\ UNCHANGED <<args, config, generator, output, curr_out>>

\* roberta_gpt2.generate: the engine returns one row of ids
GenerateEngine ==
    /\ pc = "generate" /\ raised = "none"
    /\ \E row \in SeqsUpTo(OutVocab, MaxOut) : output' = <<row>>
    /\ pc' = "decode"
    /\ UNCHANGED <<args, config, instance_dict, instance, generator, call, gdv, curr_out, raised>>

GenerateDecode ==
    /\ pc = "decode" /\ raised = "none"
    /\ curr_out' = postprocess_row(output[1], instance, args)
    /\ pc' = "returned"
    /\ UNCHANGED <<args, config, instance_dict, instance, generator, call, gdv, output, raised>>

NextGen ==
    \/ GPT2Generator_init
    \/ GenerateBuild
    \/ GenerateEngine
    \/ GenerateDecode

SpecGen == InitGen /\ [][NextGen]_vars

\* C5 (as stated): with upper_length "same_<N>" the ids decoded for the output
\* row are the row from init_context_size on, cut at the first eos id, limited
\* to the first len(context ids) + N ids, the context ids being the full
\* tokenization of the context.
C5_SameLengthOfContext ==
    (pc = "returned" /\ StartsWith(args.upper_length, <<"s", "a", "m", "e">>)) =>
      LET n == DigitVal(args.upper_length[Len(args.upper_length)])
          sliced == SubSeq(output[1], instance.init_context_size + 1, Len(output[1]))
          upto == IF \E i \in 1..Len(sliced) : sliced[i] = eos_token_id
                  THEN Cardinality({i \in 1..Len(sliced) :
                                      \A j \in 1..i : sliced[j] # eos_token_id})
                  ELSE Len(sliced)
          limit == Min(upto, Len(call.context_ids) + n)
      IN  curr_out = SubSeq(sliced, 1, limit)

\* C6 (as stated): with a configured feature list and a selector given, when no
\* precomputed table exists the call does not fail and the dense vector is the
\* two-row one-hot encoding of f1_bucket and ed_bucket.
C6_BucketFallback ==
    (/\ args.global_dense_feature_list # NoneStr
     /\ call.gdf.kind = "buckets"
     /\ ~generator.loaded
     /\ pc \in {"ready", "generate", "decode", "returned"})
    => /\ raised # "AttributeError"
       /\ pc # "ready" =>
            gdv = [shape |-> <<2, 20>>,
                   ones |-> {<<0, call.gdf.f1_bucket>>, <<1, call.gdf.ed_bucket + 10>>}]

====
